---- MODULE Spec2Model ----
(***************************************************************************)
(* A model of the RRWrite core: the persisted workflow state               *)
(* (scripts/rrwrite_state_manager.py), the manuscript checkpointing layer  *)
(* (scripts/rrwrite_git.py), the evidence merge                            *)
(* (scripts/rrwrite_import_evidence_tool.py) and the citation validator    *)
(* (scripts/rrwrite_citation_validator.py).                                *)
(*                                                                         *)
(* Python's None is the string "None"; an exception leaving a call is the  *)
(* name of its class in the call's result ("none" when the call returns).  *)
(***************************************************************************)
EXTENDS Integers, Sequences, FiniteSets, TLC

VARIABLES
    repo,       \* the manuscript directory and the git history rooted in it
    gm,         \* the GitManager object, once constructed
    gitRet,     \* outcome of the last GitManager call
    sm,         \* the running StateManager object: alive, git_manager, auto_commit
    state,      \* StateManager.state (in memory)
    stateFile,  \* .rrwrite/state.json as it is on disk
    smErr,      \* outcome of the last StateManager call
    merge,      \* the evidence tables of merge_evidence and its outputs
    cite        \* the citation validator's inputs, audit log and last result

gitVars == <<repo, gm, gitRet>>
smVars == <<sm, state, stateFile, smErr>>
vars == <<repo, gm, gitRet, sm, state, stateFile, smErr, merge, cite>>

None == "None"

(***************************************************************************)
(* Bounds of the model.                                                    *)
(***************************************************************************)
MaxCommits == 2      \* commits the history may hold
DocChunks == 2       \* pieces in which a state document reaches the disk
MaxNewSections == 1  \* sections registered beyond the default six
MaxRows == 2         \* rows of an evidence table
MaxTokens == 2       \* tokens of a manuscript text, entries of a bibliography
MaxKeys == 2         \* citation keys handed to validate_all_layers
MaxDirs == 3          \* directories beside the current manuscript directory
MaxAudit == 2        \* lines the audit log may hold

(***************************************************************************)
(* Sequences.                                                              *)
(***************************************************************************)
SeqsUpTo(S, n) == UNION {[1..k -> S] : k \in 0..n}

Range(s) == {s[i] : i \in DOMAIN s}

\* keep the elements of s that satisfy Keep(i), in order
RECURSIVE SelectIdx(_, _, _)
SelectIdx(s, Keep(_), i) ==
    IF i > Len(s) THEN <<>>
    ELSE IF Keep(i) THEN <<s[i]>> \o SelectIdx(s, Keep, i + 1)
    ELSE SelectIdx(s, Keep, i + 1)

(***************************************************************************)
(* rrwrite_git.py: the manuscript directory and its history.               *)
(*   repo.dir_exists    manuscript_dir exists                              *)
(*   repo.files         paths present under manuscript_dir                 *)
(*   repo.dirty         paths whose content differs from the index         *)
(*   repo.git_dir       manuscript_dir/.git exists                         *)
(*   repo.remote        URL of the origin remote, <<>> when there is none  *)
(*   repo.index         paths staged for the next commit                   *)
(*   repo.commits       the history, oldest first; a commit is the set of  *)
(*                      paths it records                                   *)
(*   repo.git_available the git binary can be run                          *)
(***************************************************************************)
RRWRITE_REMOTE_PATTERNS ==
    { <<"github.com", "/", "anthropics", "/", "rrwrite">>,
      <<"github.com", "/", "*", "/", "rrwrite">>,
      <<"rrwrite", ".git">> }

tool_markers ==
    { "scripts/rrwrite_state_manager.py",
      "scripts/rrwrite-analyze-repo.py",
      ".claude/skills/rrwrite.md" }

\* URLs are sequences of pieces, cut so that every pattern is a run of pieces
NoRemote == <<>>
ToolUrl == <<"https://", "github.com", "/", "anthropics", "/", "rrwrite", ".git">>
ToolUrlMixedCase == <<"https://", "GitHub.com", "/", "Anthropics", "/", "RRWrite">>
ForkUrl == <<"https://", "github.com", "/", "alice", "/", "rrwrite">>
PaperUrl == <<"https://", "github.com", "/", "alice", "/", "paper", ".git">>
RemoteUrls == {ToolUrl, ToolUrlMixedCase, ForkUrl, PaperUrl}

\* str.lower() on one piece
LowerPiece(p) ==
    CASE p = "GitHub.com" -> "github.com"
      [] p = "Anthropics" -> "anthropics"
      [] p = "RRWrite" -> "rrwrite"
      [] OTHER -> p

lower(url) == [i \in DOMAIN url |-> LowerPiece(url[i])]

\* Python's `pattern in url` on strings: pattern occurs as a run of url
Contains(url, pattern) ==
    \E off \in 0..(Len(url) - Len(pattern)) :
        \A i \in 1..Len(pattern) : url[off + i] = pattern[i]

Artifacts == {".gitignore", "outline.md"}

EmptyRepo ==
    [ dir_exists |-> FALSE, files |-> {}, dirty |-> {}, git_dir |-> FALSE,
      remote |-> NoRemote, index |-> {}, commits |-> <<>>, git_available |-> TRUE ]

_validate_manuscript_directory(r) ==
    IF ~r.dir_exists THEN "GitSafetyError"
    ELSE IF "scripts/rrwrite_state_manager.py" \in r.files THEN "GitSafetyError"
    ELSE "none"

_check_not_tool_repo(r) ==
    IF \E marker \in tool_markers : marker \in r.files
    THEN "GitSafetyError" ELSE "none"

\* GitManager.__init__: the exception it raises, "none" when the object is built
GitManager_init(r) ==
    IF _validate_manuscript_directory(r) # "none"
    THEN _validate_manuscript_directory(r)
    ELSE _check_not_tool_repo(r)

_check_remote_url(r) ==
    IF ~r.git_available THEN "none"       \* FileNotFoundError: check skipped
    ELSE IF r.remote = NoRemote THEN "none"   \* git remote get-url fails
    ELSE IF \E pattern \in RRWRITE_REMOTE_PATTERNS :
                Contains(lower(r.remote), lower(pattern))
    THEN "GitSafetyError" ELSE "none"

\* _git_add: [repo, exc]
_git_add(r, files) ==
    IF r.git_dir /\ _check_remote_url(r) # "none"
    THEN [repo |-> r, exc |-> _check_remote_url(r)]
    ELSE IF ~r.git_available THEN [repo |-> r, exc |-> "FileNotFoundError"]
    ELSE IF ~r.git_dir \/ ~(files \subseteq r.files)
    THEN [repo |-> r, exc |-> "CalledProcessError"]
    ELSE [ repo |-> [r EXCEPT !.index = r.index \cup (r.dirty \cap files),
                              !.dirty = r.dirty \ files],
           exc |-> "none" ]

\* git commit -m msg, then git rev-parse HEAD: [repo, exc, ret]
GitCommitCmd(r) ==
    IF r.index = {} THEN [repo |-> r, exc |-> "CalledProcessError", ret |-> None]
    ELSE [ repo |-> [r EXCEPT !.commits = Append(r.commits, r.index), !.index = {}],
           exc |-> "none", ret |-> "hash" ]

\* GitManager.commit: [repo, exc, ret]
commit(r, auto_commit, files) ==
    IF ~auto_commit THEN [repo |-> r, exc |-> "none", ret |-> None]
    ELSE IF ~r.git_dir THEN [repo |-> r, exc |-> "GitSafetyError", ret |-> None]
    ELSE IF _check_remote_url(r) # "none"
    THEN [repo |-> r, exc |-> _check_remote_url(r), ret |-> None]
    ELSE LET added == _git_add(r, files) IN
         IF added.exc # "none"
         THEN [repo |-> added.repo, exc |-> added.exc, ret |-> None]
         ELSE GitCommitCmd(added.repo)

\* GitManager.initialize_repository: [repo, exc, ret]
initialize_repository(r, auto_commit) ==
    IF r.git_dir
    THEN IF _check_remote_url(r) # "none"
         THEN [repo |-> r, exc |-> _check_remote_url(r), ret |-> None]
         ELSE [repo |-> r, exc |-> "none", ret |-> "False"]
    ELSE IF ~r.git_available
    THEN [repo |-> [r EXCEPT !.dir_exists = TRUE], exc |-> "FileNotFoundError", ret |-> None]
    ELSE LET inited == [r EXCEPT !.dir_exists = TRUE, !.git_dir = TRUE,
                                 !.remote = NoRemote, !.index = {}, !.commits = <<>>,
                                 !.files = r.files \cup {".gitignore"},
                                 !.dirty = r.dirty \cup {".gitignore"}]
             added == _git_add(inited, {".gitignore"})
             done == commit(added.repo, auto_commit, {".gitignore"})
         IN IF added.exc # "none"
            THEN [repo |-> added.repo, exc |-> added.exc, ret |-> None]
            ELSE IF done.exc # "none"
            THEN [repo |-> done.repo, exc |-> done.exc, ret |-> None]
            ELSE [repo |-> done.repo, exc |-> "none", ret |-> "True"]

get_current_commit(r) ==
    IF ~r.git_dir THEN None
    ELSE IF ~r.git_available THEN "FileNotFoundError"
    ELSE IF r.commits = <<>> THEN None    \* CalledProcessError: no HEAD yet
    ELSE "hash"

(***************************************************************************)
(* GitManager calls, and what the user does to the directory meanwhile.    *)
(***************************************************************************)
NoGitManager == [exists |-> FALSE, auto_commit |-> FALSE]

GitOutcome(op, res) == [op |-> op, exc |-> res.exc, ret |-> res.ret]

NewGitManager(auto_commit) ==
    /\ gm' = IF GitManager_init(repo) = "none"
             THEN [exists |-> TRUE, auto_commit |-> auto_commit]
             ELSE gm
    /\ gitRet' = [op |-> "GitManager", exc |-> GitManager_init(repo), ret |-> None]
    /\ UNCHANGED <<repo, smVars, merge, cite>>

GmInitializeRepository ==
    /\ gm.exists
    /\ LET res == initialize_repository(repo, gm.auto_commit) IN
        /\ Len(res.repo.commits) <= MaxCommits
        /\ repo' = res.repo
        /\ gitRet' = GitOutcome("initialize_repository", res)
    /\ UNCHANGED <<gm, smVars, merge, cite>>

GmCommit(files) ==
    /\ gm.exists
    /\ LET res == commit(repo, gm.auto_commit, files) IN
        /\ Len(res.repo.commits) <= MaxCommits
        /\ repo' = res.repo
        /\ gitRet' = GitOutcome("commit", res)
    /\ UNCHANGED <<gm, smVars, merge, cite>>

\* the user creates the directory
EnvMkdir ==
    /\ ~repo.dir_exists
    /\ repo' = [repo EXCEPT !.dir_exists = TRUE]
    /\ UNCHANGED <<gm, gitRet, smVars, merge, cite>>

\* the user writes (creates or edits) a file in the directory
EnvWriteFile(path) ==
    /\ repo.dir_exists
    /\ path \notin repo.dirty
    /\ repo' = [repo EXCEPT !.files = @ \cup {path},
                            !.dirty = IF path \in tool_markers THEN @ ELSE @ \cup {path}]
    /\ UNCHANGED <<gm, gitRet, smVars, merge, cite>>

\* the user runs git remote add origin / git remote set-url origin
EnvSetRemote(url) ==
    /\ repo.git_dir
    /\ repo.git_available
    /\ repo.remote # url
    /\ repo' = [repo EXCEPT !.remote = url]
    /\ UNCHANGED <<gm, gitRet, smVars, merge, cite>>

(***************************************************************************)
(* rrwrite_state_manager.py: the workflow state and its file.              *)
(***************************************************************************)
Stages ==
    { "repository_analysis", "plan", "assessment", "research", "drafting",
      "assembly", "critique" }

DefaultSections ==
    {"abstract", "introduction", "methods", "results", "discussion", "availability"}

Timestamp == "ts"    \* _get_timestamp(): some ISO date string, never None

_create_initial_state ==
    [ workflow_status |->
          [s \in Stages |->
              [status |-> "not_started", completed_at |-> None, git_commit |-> None]],
      sections |->
          [x \in DefaultSections |-> [status |-> "not_started", completed_at |-> None]],
      completed_sections |-> 0,
      total_sections |-> 6,
      git_initialized |-> FALSE ]

NoObject == [alive |-> FALSE, git_manager |-> FALSE, auto_commit |-> FALSE]

\* state.json: `written` of the DocChunks pieces of `doc` are in the file
NoFile == [exists |-> FALSE, doc |-> _create_initial_state, written |-> 0]

FileComplete(f) == f.exists /\ f.written = DocChunks

\* A call is killed in its n-th _save_state after `written` pieces, or not at all
NoKill == <<0, 0>>
KillPoints(saves) == {NoKill} \cup ((1..saves) \X (0..(DocChunks - 1)))

\* _save_state: open(state_file, 'w') empties the file, json.dump fills it
_save_state(st, written) == [exists |-> TRUE, doc |-> st, written |-> written]

\* _get_git_commit, with the object's git_manager and the history
_get_git_commit(obj, r) ==
    IF obj.git_manager /\ get_current_commit(r) # None
    THEN get_current_commit(r) ELSE None

\* the state after a handler changed it to st and saved it (save number 1)
Persist(st, kill) ==
    /\ repo' = [repo EXCEPT !.dir_exists = TRUE]
    /\ IF kill = NoKill
       THEN /\ stateFile' = _save_state(st, DocChunks)
            /\ state' = st
            /\ smErr' = "none"
            /\ sm' = sm
       ELSE /\ stateFile' = _save_state(st, kill[2])
            /\ state' = _create_initial_state
            /\ smErr' = "killed"
            /\ sm' = NoObject

\* a handler that raises exc and changes nothing
Raise(exc) ==
    /\ smErr' = exc
    /\ UNCHANGED <<repo, sm, state, stateFile>>

CompletedStage(obj, r) ==
    [status |-> "completed", completed_at |-> Timestamp, git_commit |-> _get_git_commit(obj, r)]

update_workflow_stage(stage, status, kill) ==
    /\ sm.alive
    /\ IF stage \notin DOMAIN state.workflow_status
       THEN Raise("ValueError")
       ELSE LET set == [state EXCEPT !.workflow_status[stage].status = status]
                timed == [set EXCEPT !.workflow_status[stage].completed_at = Timestamp]
                stamped ==
                    [timed EXCEPT !.workflow_status[stage].git_commit =
                                      _get_git_commit(sm, repo)]
            IN IF status # "completed" THEN Persist(set, kill)
               ELSE IF _get_git_commit(sm, repo) = "FileNotFoundError"
               THEN \* raised after the status and the timestamp were set in memory
                    /\ state' = timed
                    /\ smErr' = "FileNotFoundError"
                    /\ UNCHANGED <<repo, sm, stateFile>>
               ELSE Persist(stamped, kill)
    /\ UNCHANGED <<gm, gitRet, merge, cite>>

\* update_assessment_stage, update_research_with_import, update_repository_analysis:
\* each replaces its stage's record by a completed one
UpdateStageCompleted(stage, kill) ==
    /\ sm.alive
    /\ IF _get_git_commit(sm, repo) = "FileNotFoundError"
       THEN Raise("FileNotFoundError")
       ELSE Persist([state EXCEPT !.workflow_status[stage] = CompletedStage(sm, repo)], kill)
    /\ UNCHANGED <<gm, gitRet, merge, cite>>

update_assessment_stage(kill) == UpdateStageCompleted("assessment", kill)

update_research_with_import(kill) == UpdateStageCompleted("research", kill)

update_repository_analysis(kill) == UpdateStageCompleted("repository_analysis", kill)

\* a sections map that takes no new key
SetKnownSection(secs, section, rec) ==
    [x \in DOMAIN secs |-> IF x = section THEN rec ELSE secs[x]]

\* dict.__setitem__ on the sections map
SetSection(secs, section, rec) ==
    [x \in (DOMAIN secs) \cup {section} |-> IF x = section THEN rec ELSE secs[x]]

CountCompleted(secs) == Cardinality({x \in DOMAIN secs : secs[x].status = "completed"})

\* `if completed == total`: every registered section is completed
DraftingDone(completed, total) == completed = total

update_section_status(section, status, kill) ==
    /\ sm.alive
    /\ LET known == section \in DOMAIN state.sections
           registered ==
               IF known THEN state.sections
               ELSE SetSection(state.sections, section,
                               [status |-> "not_started", completed_at |-> None])
           total == IF known THEN state.total_sections ELSE state.total_sections + 1
           set == [registered EXCEPT ![section].status = status]
           secs == IF status = "completed"
                   THEN [set EXCEPT ![section].completed_at = Timestamp]
                   ELSE set
           completed == CountCompleted(secs)
           counted ==
               [state EXCEPT !.sections = secs,
                             !.total_sections = total,
                             !.completed_sections =
                                 IF status = "completed" THEN completed ELSE @]
           drafted ==
               [counted EXCEPT !.workflow_status["drafting"].status = "completed",
                               !.workflow_status["drafting"].completed_at = Timestamp]
       IN /\ known \/ Cardinality(DOMAIN state.sections) < 6 + MaxNewSections
          /\ IF status = "completed" /\ DraftingDone(completed, total)
             THEN IF _get_git_commit(sm, repo) = "FileNotFoundError"
                  THEN /\ state' = drafted
                       /\ smErr' = "FileNotFoundError"
                       /\ UNCHANGED <<repo, sm, stateFile>>
                  ELSE Persist([drafted EXCEPT !.workflow_status["drafting"].git_commit =
                                                   _get_git_commit(sm, repo)], kill)
             ELSE Persist(counted, kill)
    /\ UNCHANGED <<gm, gitRet, merge, cite>>

\* json.load of the state file: "none", or the exception it raises
_load_state(f) == IF f.written = DocChunks THEN "none" ELSE "JSONDecodeError"

\* StateManager(output_dir, enable_git, auto_commit): _init_state, then
\* _init_git_manager.  kill[1] counts the _save_state calls of the constructor.
StateManager_init(enable_git, auto_commit, kill) ==
    /\ ~sm.alive
    /\ LET fresh == ~stateFile.exists
           st0 == IF fresh THEN _create_initial_state ELSE stateFile.doc
           killedFirst == fresh /\ kill[1] = 1
           r0 == IF fresh THEN [repo EXCEPT !.dir_exists = TRUE] ELSE repo
           built == GitManager_init(r0) = "none"
           res == initialize_repository(r0, auto_commit)
           gitOk == enable_git /\ built /\ res.exc = "none"
           r1 == IF enable_git /\ built THEN res.repo ELSE r0
           resave == gitOk /\ res.ret = "True"
           st1 == IF resave THEN [st0 EXCEPT !.git_initialized = TRUE] ELSE st0
           killedSecond == resave /\ kill[1] = (IF fresh THEN 2 ELSE 1)
       IN IF ~fresh /\ _load_state(stateFile) # "none"
          THEN Raise(_load_state(stateFile))
          ELSE IF killedFirst
          THEN /\ stateFile' = _save_state(st0, kill[2])
               /\ repo' = r0
               /\ smErr' = "killed"
               /\ UNCHANGED <<sm, state>>
          ELSE /\ Len(r1.commits) <= MaxCommits
               /\ repo' = r1
               /\ IF killedSecond
                  THEN /\ stateFile' = _save_state(st1, kill[2])
                       /\ smErr' = "killed"
                       /\ UNCHANGED <<sm, state>>
                  ELSE /\ kill = NoKill
                       /\ stateFile' = IF fresh \/ resave
                                       THEN _save_state(st1, DocChunks) ELSE stateFile
                       /\ state' = st1
                       /\ sm' = [alive |-> TRUE, git_manager |-> gitOk,
                                 auto_commit |-> auto_commit]
                       /\ smErr' = "none"
    /\ UNCHANGED <<gm, gitRet, merge, cite>>

\* the process ends; the object and its in-memory state are gone
Exit ==
    /\ sm.alive
    /\ sm' = NoObject
    /\ state' = _create_initial_state
    /\ UNCHANGED <<repo, stateFile, smErr, gm, gitRet, merge, cite>>

(***************************************************************************)
(* Initial state: nothing on disk, no object constructed, no call made.    *)
(***************************************************************************)
NoMerge == [phase |-> "idle"]
NoCite == [phase |-> "idle"]

InitBase ==
    /\ repo = EmptyRepo
    /\ gm = NoGitManager
    /\ gitRet = [op |-> "none", exc |-> "none", ret |-> None]
    /\ sm = NoObject
    /\ state = _create_initial_state
    /\ stateFile = NoFile
    /\ smErr = "none"
    /\ merge = NoMerge
    /\ cite = NoCite

StatusInputs == {"not_started", "in_progress", "completed", "failed"}

(***************************************************************************)
(* SpecStages: one StateManager process updating workflow stages.          *)
(***************************************************************************)
StageInputs == {"plan", "drafting", "outline"}    \* "outline" is no stage

Construct == \E enable_git \in BOOLEAN : StateManager_init(enable_git, TRUE, NoKill)

UpdateStage ==
    \E stage \in StageInputs, status \in StatusInputs :
        update_workflow_stage(stage, status, NoKill)

UpdateAssessment == update_assessment_stage(NoKill)

UpdateResearch == update_research_with_import(NoKill)

UpdateRepositoryAnalysis == update_repository_analysis(NoKill)

NextStages ==
    \/ Construct
    \/ UpdateStage
    \/ UpdateAssessment
    \/ UpdateResearch
    \/ UpdateRepositoryAnalysis
    \/ Exit

SpecStages == InitBase /\ [][NextStages]_vars

(***************************************************************************)
(* SpecSections: one StateManager process updating drafting sections.      *)
(***************************************************************************)
ExtraSections == {"supplement", "appendix"}

\* every section may be completed; two of them may also be set to another status
SectionCalls ==
    ((DefaultSections \cup ExtraSections) \X {"completed"})
        \cup ({"abstract", "supplement"} \X {"not_started", "in_progress"})

ConstructPlain == StateManager_init(FALSE, TRUE, NoKill)

UpdateSection == \E call \in SectionCalls : update_section_status(call[1], call[2], NoKill)

NextSections == ConstructPlain \/ UpdateSection

SpecSections == InitBase /\ [][NextSections]_vars

(***************************************************************************)
(* SpecProgress: stage updates, and the progress summary asked for.        *)
(***************************************************************************)
get_stage_status(st, stage) ==
    IF stage \notin DOMAIN st.workflow_status THEN "not_started"
    ELSE st.workflow_status[stage].status

stages_order ==
    <<"repository_analysis", "plan", "assessment", "research", "drafting", "critique">>

\* the loop of _get_current_stage from stages_order[i] on
RECURSIVE CurrentStageFrom(_, _)
CurrentStageFrom(st, i) ==
    IF i > Len(stages_order) THEN "completed"
    ELSE IF get_stage_status(st, stages_order[i]) = "in_progress" THEN stages_order[i]
    ELSE IF get_stage_status(st, stages_order[i]) = "not_started" THEN stages_order[i]
    ELSE CurrentStageFrom(st, i + 1)

_get_current_stage(st) == CurrentStageFrom(st, 1)

\* get_progress_summary; progress_percentage is the quotient num / den
get_progress_summary(st) ==
    LET stages == st.workflow_status
        others == DOMAIN stages \ {"drafting"}
        done == Cardinality({s \in others : stages[s].status = "completed"})
        total_stages ==
            Cardinality(others)
                + (IF stages["drafting"].status # "not_started" THEN 1 ELSE 0)
        completed_stages ==
            done + (IF stages["drafting"].status = "completed" THEN 1 ELSE 0)
    IN [ total_stages |-> total_stages,
         completed_stages |-> completed_stages,
         current_stage |-> _get_current_stage(st),
         progress_percentage |-> [num |-> completed_stages * 100, den |-> total_stages],
         sections_completed |-> st.completed_sections,
         sections_total |-> st.total_sections ]

GetProgressSummary ==
    /\ sm.alive
    /\ gitRet' = [op |-> "get_progress_summary", exc |-> "none",
                  ret |-> get_progress_summary(state).current_stage,
                  summary |-> get_progress_summary(state)]
    /\ UNCHANGED <<repo, gm, smVars, merge, cite>>

\* two stages take every status, the others are only completed
ProgressCalls ==
    ({"repository_analysis", "plan"} \X {"in_progress", "completed", "failed"})
        \cup (Stages \X {"completed"})

ProgressUpdate == \E call \in ProgressCalls : update_workflow_stage(call[1], call[2], NoKill)

NextProgress == ConstructPlain \/ ProgressUpdate \/ GetProgressSummary

SpecProgress == InitBase /\ [][NextProgress]_vars

(***************************************************************************)
(* SpecStore: StateManager processes that may be killed while they write   *)
(* the state file, each started after the previous one ended.              *)
(***************************************************************************)
ConstructOrDie ==
    \E enable_git \in BOOLEAN, kill \in KillPoints(2) :
        StateManager_init(enable_git, TRUE, kill)

UpdateStageOrDie ==
    \E status \in {"in_progress", "completed"}, kill \in KillPoints(1) :
        update_workflow_stage("plan", status, kill)

UpdateSectionOrDie ==
    \E status \in {"in_progress", "completed"}, kill \in KillPoints(1) :
        update_section_status("abstract", status, kill)

NextStore == ConstructOrDie \/ UpdateStageOrDie \/ UpdateSectionOrDie \/ Exit

SpecStore == InitBase /\ [][NextStore]_vars

(***************************************************************************)
(* SpecGit: a GitManager on a directory the user also works in.            *)
(***************************************************************************)
MarkerInputs == {"scripts/rrwrite_state_manager.py", ".claude/skills/rrwrite.md"}

CommitInputs == (SUBSET Artifacts) \ {{}}

Construction == \E auto_commit \in BOOLEAN : NewGitManager(auto_commit)

Checkpoint == \E files \in CommitInputs : GmCommit(files)

UserWrites == \E path \in Artifacts \cup MarkerInputs : EnvWriteFile(path)

UserSetsRemote == \E url \in RemoteUrls : EnvSetRemote(url)

\* the git binary appears on, or disappears from, the PATH
EnvGitAvailability ==
    /\ repo' = [repo EXCEPT !.git_available = ~@]
    /\ UNCHANGED <<gm, gitRet, smVars, merge, cite>>

NextGit ==
    \/ Construction
    \/ GmInitializeRepository
    \/ Checkpoint
    \/ EnvMkdir
    \/ UserWrites
    \/ UserSetsRemote
    \/ EnvGitAvailability

SpecGit == InitBase /\ [][NextGit]_vars

(***************************************************************************)
(* SpecHistory: a StateManager with git enabled, on a directory the user   *)
(* also works in.                                                          *)
(***************************************************************************)
\* commit_stage without its except clauses: what GitManager.commit raises leaves
commit_stage_unguarded(obj, r, files) ==
    IF ~obj.git_manager THEN [repo |-> r, exc |-> "none", ret |-> None]
    ELSE commit(r, obj.auto_commit, files)

\* StateManager.commit_stage: [repo, exc, ret]; every exception of
\* GitManager.commit is logged and None is returned
commit_stage(obj, r, files) ==
    IF ~obj.git_manager THEN [repo |-> r, exc |-> "none", ret |-> None]
    ELSE LET res == commit(r, obj.auto_commit, files) IN
         IF res.exc # "none"
         THEN [repo |-> res.repo, exc |-> "none", ret |-> None]
         ELSE res

CommitStage(files) ==
    /\ sm.alive
    /\ LET res == commit_stage(sm, repo, files) IN
        /\ Len(res.repo.commits) <= MaxCommits
        /\ repo' = res.repo
        /\ gitRet' = GitOutcome("commit_stage", res)
    /\ UNCHANGED <<gm, smVars, merge, cite>>

ConstructWithGit == StateManager_init(TRUE, TRUE, NoKill)

StageCheckpoint == \E files \in CommitInputs : CommitStage(files)

CompletedInputs == {"plan", "research"}

MarkCompleted == \E stage \in CompletedInputs : update_workflow_stage(stage, "completed", NoKill)

NextHistory ==
    \/ ConstructWithGit
    \/ StageCheckpoint
    \/ MarkCompleted
    \/ EnvMkdir
    \/ UserWrites
    \/ UserSetsRemote
    \/ EnvGitAvailability
    \/ Exit

SpecHistory == InitBase /\ [][NextHistory]_vars

(***************************************************************************)
(* SpecTurns: two StateManager objects of one project that take turns, one *)
(* whole operation at a time.  The first is (sm, state); the second, built *)
(* with enable_git = False, keeps its in-memory state in `merge`.          *)
(***************************************************************************)
\* _init_state of the second object: load the file, or create and save it
SecondInit ==
    /\ merge.phase = "idle"
    /\ merge' = [phase |-> "object",
                 state |-> IF stateFile.exists THEN stateFile.doc
                           ELSE _create_initial_state]
    /\ stateFile' = IF stateFile.exists THEN stateFile
                    ELSE _save_state(_create_initial_state, DocChunks)
    /\ repo' = [repo EXCEPT !.dir_exists = TRUE]
    /\ UNCHANGED <<sm, state, smErr, gm, gitRet, cite>>

\* update_workflow_stage of the second object (it has no git_manager)
SecondUpdateStage(stage, status) ==
    /\ merge.phase = "object"
    /\ stage \in DOMAIN merge.state.workflow_status
    /\ LET set == [merge.state EXCEPT !.workflow_status[stage].status = status]
           timed == [set EXCEPT !.workflow_status[stage].completed_at = Timestamp]
           stamped == [timed EXCEPT !.workflow_status[stage].git_commit =
                                        _get_git_commit(NoObject, repo)]
           new == IF status = "completed" THEN stamped ELSE set
       IN /\ merge' = [merge EXCEPT !.state = new]
          /\ stateFile' = _save_state(new, DocChunks)
    /\ UNCHANGED <<repo, sm, state, smErr, gm, gitRet, cite>>

TurnStages == {"plan", "research"}

TurnStatuses == {"in_progress", "completed"}

FirstUpdates ==
    \E stage \in TurnStages, status \in TurnStatuses :
        update_workflow_stage(stage, status, NoKill)

SecondUpdates ==
    \E stage \in TurnStages, status \in TurnStatuses : SecondUpdateStage(stage, status)

NextTurns == ConstructPlain \/ SecondInit \/ FirstUpdates \/ SecondUpdates

SpecTurns == InitBase /\ [][NextTurns]_vars

(***************************************************************************)
(* rrwrite_import_evidence_tool.py: merge_evidence.                        *)
(* A CSV file is a sequence of rows [doi, quote] of cells (strings); a     *)
(* data frame is a sequence of rows whose empty cells are NaN.             *)
(***************************************************************************)
NaN == "NaN"

DoiCells == {"", "10.1/a", "10.1/b"}

QuoteCells == {"q1", "q2"}

CsvRows == [doi : DoiCells, quote : QuoteCells]

CsvFiles == SeqsUpTo(CsvRows, MaxRows)

\* pd.read_csv: an empty cell is read as NaN
read_cell(c) == IF c = "" THEN NaN ELSE c

read_csv(file) ==
    [i \in DOMAIN file |-> [doi |-> read_cell(file[i].doi), quote |-> read_cell(file[i].quote)]]

\* DataFrame.to_csv: NaN is written as an empty cell
write_cell(v) == IF v = NaN THEN "" ELSE v

to_csv(df) ==
    [i \in DOMAIN df |-> [doi |-> write_cell(df[i].doi), quote |-> write_cell(df[i].quote)]]

\* df["source"] = tag
Tag(df, tag) ==
    [i \in DOMAIN df |-> [doi |-> df[i].doi, quote |-> df[i].quote, source |-> tag]]

\* drop(columns=["source"])
DropSource(df) == [i \in DOMAIN df |-> [doi |-> df[i].doi, quote |-> df[i].quote]]

drop_duplicates_keep_first(df) ==
    LET Keep(i) == ~\E j \in 1..(i - 1) : df[j].doi = df[i].doi
    IN SelectIdx(df, Keep, 1)

drop_duplicates_not_done(df) == df

\* drop_duplicates(subset=["doi"], keep="last"): a row stays unless a later row
\* has the same doi; pandas takes two NaN for the same value here
drop_duplicates(df) ==
    LET Keep(i) == ~\E j \in (i + 1)..Len(df) : df[j].doi = df[i].doi
    IN SelectIdx(df, Keep, 1)

CountSource(df, tag) == Cardinality({i \in DOMAIN df : df[i].source = tag})

\* merge_evidence(old_csv, new_csv, output_csv): [output_csv, stats]
merge_evidence(old_csv, new_csv) ==
    LET old_df == Tag(read_csv(old_csv), "previous")
        new_df == Tag(read_csv(new_csv), "new")
        combined_df == drop_duplicates(old_df \o new_df)
    IN [ output_csv |-> to_csv(DropSource(combined_df)),
         stats |->
             [ papers_old |-> Len(old_df),
               papers_new |-> Len(new_df),
               papers_merged |-> Len(combined_df),
               duplicates_removed |-> Len(old_df) + Len(new_df) - Len(combined_df),
               from_previous |-> CountSource(combined_df, "previous"),
               from_new_search |-> CountSource(combined_df, "new") ] ]

NoStats ==
    [ papers_old |-> 0, papers_new |-> 0, papers_merged |-> 0, duplicates_removed |-> 0,
      from_previous |-> 0, from_new_search |-> 0 ]

\* --merge --old old_csv --new new_csv --output output_csv
MergeTables ==
    /\ merge.phase = "loaded"
    /\ merge' = [merge EXCEPT !.phase = "merged",
                              !.output_csv = merge_evidence(merge.old_csv, merge.new_csv).output_csv,
                              !.stats = merge_evidence(merge.old_csv, merge.new_csv).stats]
    /\ UNCHANGED <<gitVars, smVars, cite>>

\* --merge --old output_csv --new new_csv --output again_csv
MergeAgain ==
    /\ merge.phase = "merged"
    /\ merge' = [merge EXCEPT !.phase = "merged_again",
                              !.again_csv = merge_evidence(merge.output_csv, merge.new_csv).output_csv]
    /\ UNCHANGED <<gitVars, smVars, cite>>

(***************************************************************************)
(* SpecMerge: two evidence tables on disk, merged, and merged once more.   *)
(***************************************************************************)
InitMerge ==
    /\ repo = EmptyRepo
    /\ gm = NoGitManager
    /\ gitRet = [op |-> "none", exc |-> "none", ret |-> None]
    /\ sm = NoObject
    /\ state = _create_initial_state
    /\ stateFile = NoFile
    /\ smErr = "none"
    /\ merge \in [ phase : {"loaded"}, old_csv : CsvFiles, new_csv : CsvFiles,
                   output_csv : {<<>>}, again_csv : {<<>>}, stats : {NoStats} ]
    /\ cite = NoCite

NextMerge == MergeTables \/ MergeAgain

SpecMerge == InitMerge /\ [][NextMerge]_vars

(***************************************************************************)
(* rrwrite_citation_validator.py.                                          *)
(* A citation key is its sequence of characters.  A file is               *)
(* [exists, items]: the manuscript's items are its words, [bracketed,      *)
(* body]; the bibliography's are its entries, [keytext], the text between  *)
(* "@type{" and the first comma; the evidence table's are its rows.        *)
(***************************************************************************)
LowerLetters ==
    { "a", "b", "c", "d", "e", "f", "g", "h", "i", "j", "k", "l", "m", "n", "o",
      "p", "q", "r", "s", "t", "u", "v", "w", "x", "y", "z" }

UpperLetters ==
    { "A", "B", "C", "D", "E", "F", "G", "H", "I", "J", "K", "L", "M", "N", "O",
      "P", "Q", "R", "S", "T", "U", "V", "W", "X", "Y", "Z" }

Digits == {"0", "1", "2", "3", "4", "5", "6", "7", "8", "9"}

KeyLi2020 == <<"l", "i", "2", "0", "2", "0">>
KeyWu2021a == <<"W", "u", "2", "0", "2", "1", "a">>
KeyLi20 == <<"l", "i", "2", "0">>
KeySpacedLi2020 == <<" ", "l", "i", "2", "0", "2", "0">>
KeyGhost1999 == <<"g", "o", "1", "9", "9", "9">>

MissingFile == [exists |-> FALSE, items |-> <<>>]

File(items) == [exists |-> TRUE, items |-> items]

\* [a-zA-Z]+\d{4}[a-z]? matches the whole of body
MatchesKeyPattern(body) ==
    \E n \in 1..Len(body) :
        /\ \A i \in 1..n : body[i] \in LowerLetters \cup UpperLetters
        /\ Len(body) \in {n + 4, n + 5}
        /\ \A i \in (n + 1)..(n + 4) : body[i] \in Digits
        /\ Len(body) = n + 5 => body[n + 5] \in LowerLetters

\* re.findall(r'\[([a-zA-Z]+\d{4}[a-z]?)\]', content)
extract_citations_from_text(manuscript) ==
    IF ~manuscript.exists THEN {}
    ELSE { w.body : w \in {x \in Range(manuscript.items) :
                               x.bracketed /\ MatchesKeyPattern(x.body)} }

\* re.findall(r'@\w+\{([^,]+),', content)
extract_citations_from_bib(bib) ==
    IF ~bib.exists THEN {}
    ELSE { e.keytext : e \in {x \in Range(bib.items) : x.keytext # <<>>} }

OrphanedBibForgotten(text_cites, bib_cites) == {}

\* bib_cites - text_cites
OrphanedBib(text_cites, bib_cites) == bib_cites \ text_cites

\* validate_citation_completeness: [exc, orphaned_text, orphaned_bib, message];
\* message holds the keys the error message lists in its two parts
validate_citation_completeness(manuscript, bib) ==
    LET text_cites == extract_citations_from_text(manuscript)
        bib_cites == extract_citations_from_bib(bib)
        orphaned_text == text_cites \ bib_cites
        orphaned_bib == OrphanedBib(text_cites, bib_cites)
    IN IF orphaned_text # {} \/ orphaned_bib # {}
       THEN [ exc |-> "CitationMismatchError", orphaned_text |-> {}, orphaned_bib |-> {},
              message |-> [in_text |-> orphaned_text, in_bib |-> orphaned_bib] ]
       ELSE [ exc |-> "none", orphaned_text |-> orphaned_text, orphaned_bib |-> orphaned_bib,
              message |-> [in_text |-> {}, in_bib |-> {}] ]

NoCompleteness ==
    [ exc |-> "none", orphaned_text |-> {}, orphaned_bib |-> {},
      message |-> [in_text |-> {}, in_bib |-> {}] ]

CheckCompleteness ==
    /\ cite.phase = "files"
    /\ cite' = [cite EXCEPT !.phase = "checked",
                            !.completeness =
                                validate_citation_completeness(cite.manuscript, cite.bib)]
    /\ UNCHANGED <<gitVars, smVars, merge>>

(***************************************************************************)
(* The four layers behind validate_all_layers.  An evidence row is         *)
(* [citation_key, title, year, citation_type, doi]: the title is its       *)
(* sequence of words, the doi its sequence of pieces, and a citation_type  *)
(* of "unknown" is also what a table without that column yields.           *)
(***************************************************************************)
NowYear == 2026

\* CitationEntryValidator.load_evidence_keys
load_evidence_keys(evidence) ==
    IF ~evidence.exists THEN {}
    ELSE {evidence.items[i].citation_key : i \in 1..Len(evidence.items)}

\* CitationEntryValidator.validate_at_entry: the exception it leaves with
validate_at_entry(citation_key, evidence) ==
    IF citation_key \notin load_evidence_keys(evidence)
    THEN "CitationNotFoundError" ELSE "none"

NoRules == [max_citations |-> 0, allowed_types |-> {}, forbidden_types |-> {}]

\* max_citations None is 0; a rule without forbidden_types has none
SECTION_RULES ==
    [ abstract |-> [NoRules EXCEPT !.max_citations = 2, !.allowed_types = {"seminal"}],
      introduction |->
          [NoRules EXCEPT !.allowed_types = {"seminal", "review", "recent", "tool"}],
      methods |-> [NoRules EXCEPT !.allowed_types = {"tool", "protocol", "dataset"},
                                  !.forbidden_types = {"review"}],
      results |-> [NoRules EXCEPT !.allowed_types = {"recent", "benchmark"},
                                  !.forbidden_types = {"review"}],
      discussion |->
          [NoRules EXCEPT !.allowed_types = {"seminal", "review", "recent", "tool"}] ]

\* str.lower() on the words and section names in use
LowerWord(w) ==
    CASE w = "Review" -> "review"
      [] w = "Pipeline" -> "pipeline"
      [] w = "Methods" -> "methods"
      [] w = "Abstract" -> "abstract"
      [] OTHER -> w

\* int(year): [exc, value]
IntOfYear(year) ==
    CASE year = "2024" -> [exc |-> "none", value |-> 2024]
      [] year = "2018" -> [exc |-> "none", value |-> 2018]
      [] year = "2005" -> [exc |-> "none", value |-> 2005]
      [] OTHER -> [exc |-> "ValueError", value |-> 0]

\* CitationBusinessValidator._load_citation_metadata: the last row of a key wins
_load_citation_metadata(evidence) ==
    [ k \in load_evidence_keys(evidence) |->
        LET last == CHOOSE i \in 1..Len(evidence.items) :
                        /\ evidence.items[i].citation_key = k
                        /\ \A j \in (i + 1)..Len(evidence.items) :
                               evidence.items[j].citation_key # k
        IN evidence.items[last] ]

\* CitationBusinessValidator._infer_citation_type: [exc, type]
_infer_citation_type(metadata) ==
    LET title == {LowerWord(metadata.title[i]) : i \in 1..Len(metadata.title)}
        AnyIn(words) == title \cap words # {}
        year == metadata.year
        Is(t) == [exc |-> "none", type |-> t]
    IN IF AnyIn({"software", "tool", "pipeline", "package", "algorithm"}) THEN Is("tool")
       ELSE IF AnyIn({"review", "survey", "overview", "perspectives"}) THEN Is("review")
       ELSE IF AnyIn({"protocol", "method", "procedure", "workflow"}) THEN Is("protocol")
       ELSE IF AnyIn({"database", "dataset", "repository", "collection"}) THEN Is("dataset")
       ELSE IF AnyIn({"benchmark", "comparison", "evaluation"}) THEN Is("benchmark")
       ELSE IF year = "" THEN Is("unknown")
       ELSE IF IntOfYear(year).exc # "none" THEN [exc |-> "ValueError", type |-> ""]
       ELSE IF IntOfYear(year).value >= NowYear - 5 THEN Is("recent")
       ELSE IF IntOfYear(year).value < NowYear - 10 THEN Is("seminal")
       ELSE Is("unknown")

Message(kind, key, type) == [kind |-> kind, key |-> key, type |-> type]

\* the type of one cited key: [exc, type]
CitType(metadata, cit) ==
    IF metadata[cit].citation_type = "unknown"
    THEN _infer_citation_type(metadata[cit])
    ELSE [exc |-> "none", type |-> metadata[cit].citation_type]

\* the warnings of the loop over citations[i..], in order
RECURSIVE TypeWarnings(_, _, _, _)
TypeWarnings(rules, metadata, citations, i) ==
    IF i > Len(citations) THEN [exc |-> "none", warnings |-> <<>>]
    ELSE LET cit == citations[i]
             rest == TypeWarnings(rules, metadata, citations, i + 1)
         IN IF cit \notin DOMAIN metadata THEN rest
            ELSE LET t == CitType(metadata, cit)
                     forbidden == IF t.type \in rules.forbidden_types
                                  THEN <<Message("forbidden", cit, t.type)>> ELSE <<>>
                     unusual == IF t.type \notin rules.allowed_types
                                THEN <<Message("not_typical", cit, t.type)>> ELSE <<>>
                 IN IF t.exc # "none" THEN [exc |-> t.exc, warnings |-> <<>>]
                    ELSE [rest EXCEPT !.warnings = forbidden \o unusual \o @]

\* CitationBusinessValidator.validate_section_appropriateness: [exc, warnings]
validate_section_appropriateness(evidence, section, citations) ==
    LET section_lower == LowerWord(section)
    IN IF section_lower \notin DOMAIN SECTION_RULES
       THEN [exc |-> "none", warnings |-> <<>>]
       ELSE LET rules == SECTION_RULES[section_lower]
                metadata == _load_citation_metadata(evidence)
                count == IF rules.max_citations # 0 /\ Len(citations) > rules.max_citations
                         THEN <<Message("max_citations", <<>>, "")>> ELSE <<>>
                types == TypeWarnings(rules, metadata, citations, 1)
            IN [types EXCEPT !.warnings = IF types.exc = "none" THEN count \o @ ELSE <<>>]

\* CitationAuditor._verify_doi: the first row of the key decides
_verify_doi(citation_key, evidence) ==
    /\ evidence.exists
    /\ \E i \in 1..Len(evidence.items) :
           /\ evidence.items[i].citation_key = citation_key
           /\ \A j \in 1..(i - 1) : evidence.items[j].citation_key # citation_key
           /\ evidence.items[i].doi # <<>>
           /\ evidence.items[i].doi[1] = "10."

\* CitationAuditor.log_citation_usage: the line appended to the audit log
log_citation_usage(section, citation, evidence) ==
    [ section |-> section, citation |-> citation, context |-> "",
      doi_verified |-> _verify_doi(citation, evidence) ]

\* an optional path argument: passed with the file it names, or left None
Path(file) == [given |-> TRUE, file |-> file]

NoPath == [given |-> FALSE, file |-> MissingFile]

\* the optional audit_log_path: passed with the lines the log holds, or None
Sink(lines) == [given |-> TRUE, lines |-> lines]

NoSink == [given |-> FALSE, lines |-> <<>>]

\* validate_all_layers: [exc, success, errors, audit_log]
validate_all_layers(citation_keys, section, evidence, manuscript, bib, audit_log) ==
    LET Left(exc) ==
            [exc |-> exc, success |-> FALSE, errors |-> <<>>, audit_log |-> audit_log]
        Returned(success, errors, log) ==
            [exc |-> "none", success |-> success, errors |-> errors, audit_log |-> log]
        missing == {i \in 1..Len(citation_keys) :
                        validate_at_entry(citation_keys[i], evidence) # "none"}
        first == CHOOSE i \in missing : \A j \in missing : i <= j
        layer2 == validate_section_appropriateness(evidence, section, citation_keys)
        layer3 == IF manuscript.given /\ bib.given
                  THEN validate_citation_completeness(manuscript.file, bib.file).exc
                  ELSE "none"
        entries == [i \in 1..Len(citation_keys) |->
                        log_citation_usage(section, citation_keys[i], evidence)]
    IN IF missing # {}
       THEN Returned(FALSE,
                     <<Message("CitationNotFoundError", citation_keys[first], "")>>,
                     audit_log)
       ELSE IF layer2.exc # "none" THEN Left(layer2.exc)
       ELSE IF layer3 # "none"
       THEN Returned(FALSE,
                     layer2.warnings \o <<Message("CitationMismatchError", <<>>, "")>>,
                     audit_log)
       ELSE Returned(layer2.warnings = <<>>, layer2.warnings,
                     IF audit_log.given
                     THEN Sink(audit_log.lines \o entries) ELSE audit_log)

(***************************************************************************)
(* SpecCompleteness: a manuscript and a bibliography on disk, checked.     *)
(***************************************************************************)
Words ==
    { [bracketed |-> TRUE, body |-> KeyLi2020],
      [bracketed |-> TRUE, body |-> KeyWu2021a],
      [bracketed |-> TRUE, body |-> KeyLi20],
      [bracketed |-> FALSE, body |-> KeyGhost1999] }

BibEntries == {[keytext |-> k] : k \in {KeyLi2020, KeyWu2021a, KeySpacedLi2020, <<>>}}

Manuscripts == {MissingFile} \cup {File(t) : t \in SeqsUpTo(Words, MaxTokens)}

Bibliographies == {MissingFile} \cup {File(b) : b \in SeqsUpTo(BibEntries, MaxTokens)}

InitCompleteness ==
    /\ repo = EmptyRepo
    /\ gm = NoGitManager
    /\ gitRet = [op |-> "none", exc |-> "none", ret |-> None]
    /\ sm = NoObject
    /\ state = _create_initial_state
    /\ stateFile = NoFile
    /\ smErr = "none"
    /\ merge = NoMerge
    /\ cite \in [ phase : {"files"}, manuscript : Manuscripts, bib : Bibliographies,
                  completeness : {NoCompleteness} ]

NextCompleteness == CheckCompleteness

SpecCompleteness == InitCompleteness /\ [][NextCompleteness]_vars

(***************************************************************************)
(* SpecCite: calls of validate_all_layers against one evidence table, one  *)
(* manuscript and one bibliography, with or without an audit log.          *)
(***************************************************************************)
EvidenceRows ==
    { [ citation_key |-> KeyLi2020, title |-> <<"genomes">>, year |-> "2005",
        citation_type |-> "unknown", doi |-> <<"10.", "1/a">> ],
      [ citation_key |-> KeyLi2020, title |-> <<"A", "Review">>, year |-> "",
        citation_type |-> "unknown", doi |-> <<>> ],
      [ citation_key |-> KeyWu2021a, title |-> <<"Pipeline">>, year |-> "2024",
        citation_type |-> "", doi |-> <<"doi:", "10.", "1/b">> ],
      [ citation_key |-> KeyWu2021a, title |-> <<"genomes">>, year |-> "n.d.",
        citation_type |-> "unknown", doi |-> <<"10.", "1/b">> ] }

EvidenceTables == {MissingFile} \cup {File(t) : t \in SeqsUpTo(EvidenceRows, MaxRows)}

KeyInputs == {KeyLi2020, KeyWu2021a, KeyGhost1999}

SectionInputs == {"Abstract", "methods", "supplement"}

Cited(k) == [bracketed |-> TRUE, body |-> k]

\* a manuscript with its bibliography: in step, and with an entry nobody cites
Assemblies ==
    { <<File(<<Cited(KeyLi2020)>>), File(<<[keytext |-> KeyLi2020]>>)>>,
      <<File(<<Cited(KeyLi2020)>>),
        File(<<[keytext |-> KeyLi2020], [keytext |-> KeyWu2021a]>>)>> }

NoResult == [exc |-> "none", success |-> FALSE, errors |-> <<>>, audit_log |-> NoSink]

InitCite ==
    /\ repo = EmptyRepo
    /\ gm = NoGitManager
    /\ gitRet = [op |-> "none", exc |-> "none", ret |-> None]
    /\ sm = NoObject
    /\ state = _create_initial_state
    /\ stateFile = NoFile
    /\ smErr = "none"
    /\ merge = NoMerge
    /\ \E evidence \in EvidenceTables, a \in Assemblies :
           cite = [ phase |-> "session", evidence |-> evidence, manuscript |-> a[1],
                    bib |-> a[2], audit_log |-> <<>>, result |-> NoResult,
                    exit_status |-> -1 ]

\* one call; the audit log file is cite.audit_log, passed or not
ValidateAllLayers(citation_keys, section, assembly, sink) ==
    /\ cite.phase = "session"
    /\ Len(cite.audit_log) + Len(citation_keys) <= MaxAudit
    /\ LET res == validate_all_layers(citation_keys, section, cite.evidence,
                                      IF assembly THEN Path(cite.manuscript) ELSE NoPath,
                                      IF assembly THEN Path(cite.bib) ELSE NoPath,
                                      IF sink THEN Sink(cite.audit_log) ELSE NoSink)
       IN cite' = [cite EXCEPT !.audit_log = IF sink THEN res.audit_log.lines ELSE @,
                               !.result = res]
    /\ UNCHANGED <<gitVars, smVars, merge>>

\* __main__ with argv = <section> <evidence_csv> <citation_key>...: the exit
\* status, 1 also when an exception ends the interpreter
Main(section, citations) ==
    /\ cite.phase = "session"
    /\ Len(citations) >= 1
    /\ LET res == validate_all_layers(citations, section, cite.evidence,
                                      NoPath, NoPath, NoSink)
       IN cite' = [cite EXCEPT !.exit_status =
                                   IF res.exc # "none" \/ ~res.success THEN 1 ELSE 0]
    /\ UNCHANGED <<gitVars, smVars, merge>>

NextCite ==
    \E citation_keys \in SeqsUpTo(KeyInputs, MaxKeys), section \in SectionInputs :
        \/ \E assembly \in BOOLEAN, sink \in BOOLEAN :
               ValidateAllLayers(citation_keys, section, assembly, sink)
        \/ Main(section, citation_keys)

SpecCite == InitCite /\ [][NextCite]_vars

(***************************************************************************)
(* rrwrite_validate_evidence_tool.py.  An evidence row is [doi,            *)
(* citation_key, citation]: the doi cell is its sequence of pieces, the    *)
(* citation cell its sequence of words [paren, year], year 0 for a word    *)
(* that is not a four-digit number; an empty cell is the empty sequence.   *)
(* Each request to the resolver is answered by one of Responses.           *)
(***************************************************************************)
DoiPrefix == "https://doi.org/"

Responses == {"200", "404", "503", "Timeout", "RequestException"}

\* pd.read_csv of one cell: the empty cell is NaN; a DataFrame cell is
\* [na, value]
read_seq_cell(c) == [na |-> c = <<>>, value |-> c]

\* DataFrame.to_csv of one cell: NaN is written as the empty cell
write_seq_cell(v) == IF v.na THEN <<>> ELSE v.value

\* pd.notna
notna(v) == ~v.na

\* str.strip() on a sequence of pieces
RECURSIVE lstrip(_)
lstrip(t) == IF t # <<>> /\ Head(t) = " " THEN lstrip(Tail(t)) ELSE t

RECURSIVE rstrip(_)
rstrip(t) ==
    IF t # <<>> /\ t[Len(t)] = " " THEN rstrip(SubSeq(t, 1, Len(t) - 1)) ELSE t

\* doi.replace("https://doi.org/", "").strip()
doi_clean(doi) ==
    LET NotPrefix(i) == doi[i] # DoiPrefix
    IN rstrip(lstrip(SelectIdx(doi, NotPrefix, 1)))

\* validate_doi: the status, given how the resolver answers the request
validate_doi(doi, response) ==
    IF doi_clean(doi) = <<>> THEN "invalid"
    ELSE IF response = "200" THEN "valid"
    ELSE IF response = "404" THEN "invalid"
    ELSE "unknown"

check_freshness(year) ==
    LET age == NowYear - year
    IN IF age < 5 THEN "fresh" ELSE IF age < 10 THEN "stale" ELSE "old"

\* extract_year_from_citation: a year in parentheses first, then a bare one,
\* then the current year
extract_year_from_citation(citation) ==
    LET paren == {i \in DOMAIN citation : citation[i].paren /\ citation[i].year # 0}
        bare == {i \in DOMAIN citation : citation[i].year # 0}
        First(S) == CHOOSE i \in S : \A j \in S : i <= j
    IN IF paren # {} THEN citation[First(paren)].year
       ELSE IF bare # {} THEN citation[First(bare)].year
       ELSE NowYear

\* the loop body of validate_evidence_file on one row
ValidateRow(row, response, validate_dois, check_freshness_flag) ==
    LET checked == validate_dois /\ notna(row.doi)
        doi_status == IF checked THEN validate_doi(row.doi.value, response)
                      ELSE "not_checked"
        aged == check_freshness_flag /\ notna(row.citation)
        freshness == IF aged
                     THEN check_freshness(extract_year_from_citation(row.citation.value))
                     ELSE "unknown"
        after_doi == IF doi_status = "invalid" THEN "remove" ELSE "keep"
        action == IF freshness \in {"stale", "old"} /\ after_doi = "keep"
                  THEN "review" ELSE after_doi
        reasons == (IF doi_status = "invalid" THEN <<"DOI does not resolve">>
                    ELSE IF doi_status = "unknown"
                    THEN <<"DOI validation failed (network error)">> ELSE <<>>)
                   \o (IF freshness \in {"stale", "old"} THEN <<"Paper is old">> ELSE <<>>)
    IN [ doi |-> row.doi, citation_key |-> row.citation_key, citation |-> row.citation,
         doi_status |-> doi_status, freshness |-> freshness, action |-> action,
         reason |-> IF reasons = <<>> THEN <<"Valid">> ELSE reasons ]

\* pd.read_csv of the evidence file
read_evidence_csv(csv) ==
    [ i \in DOMAIN csv |->
        [ doi |-> read_seq_cell(csv[i].doi), citation_key |-> csv[i].citation_key,
          citation |-> read_seq_cell(csv[i].citation) ] ]

\* validate_evidence_file: the DataFrame with the four validation columns
validate_evidence_file(csv, validate_dois, check_freshness_flag, responses) ==
    LET df == read_evidence_csv(csv)
    IN [ i \in DOMAIN df |->
           ValidateRow(df[i], responses[i], validate_dois, check_freshness_flag) ]

CountAction(validation_df, action) ==
    Cardinality({i \in DOMAIN validation_df : validation_df[i].action = action})

\* generate_validation_summary
generate_validation_summary(validation_df) ==
    [ total_papers |-> Len(validation_df),
      valid_papers |-> CountAction(validation_df, "keep"),
      needs_review |-> CountAction(validation_df, "review"),
      to_remove |-> CountAction(validation_df, "remove") ]

(***************************************************************************)
(* rrwrite_import_evidence_tool.py: import mode.  A bibliography entry is  *)
(* [key, own_line_close]: key is the text between "{" and the first comma  *)
(* of its first line, own_line_close tells whether its closing brace       *)
(* stands on a line of its own or ends the line of its last field.         *)
(***************************************************************************)
\* the lines of one entry as written in a .bib file
EntryLines(e, n) ==
    <<[at |-> TRUE, brace |-> TRUE, key |-> e.key, close |-> FALSE, entry |-> n]>>
    \o (IF e.own_line_close
        THEN << [at |-> FALSE, brace |-> TRUE, key |-> <<>>, close |-> FALSE, entry |-> n],
                [at |-> FALSE, brace |-> TRUE, key |-> <<>>, close |-> TRUE, entry |-> n] >>
        ELSE <<[at |-> FALSE, brace |-> TRUE, key |-> <<>>, close |-> FALSE, entry |-> n]>>)

BlankLine == [at |-> FALSE, brace |-> FALSE, key |-> <<>>, close |-> FALSE, entry |-> 0]

\* bib_content.split("\n") of a file of entries separated by blank lines and
\* ended by a newline
RECURSIVE BibLines(_, _)
BibLines(bib, n) ==
    IF n > Len(bib) THEN <<BlankLine>>
    ELSE EntryLines(bib[n], n)
         \o (IF n < Len(bib) THEN <<BlankLine>> ELSE <<>>)
         \o BibLines(bib, n + 1)

\* the entry parser of import_citations_bib, from line i on: entries is the
\* list built so far, current_entry the lines of the entry being read
RECURSIVE ParseEntries(_, _, _, _, _)
ParseEntries(lines, i, entries, current_entry, in_entry) ==
    IF i > Len(lines) THEN entries
    ELSE IF lines[i].at
    THEN ParseEntries(lines, i + 1,
                      IF current_entry # <<>> THEN Append(entries, current_entry)
                      ELSE entries,
                      <<lines[i]>>, TRUE)
    ELSE IF in_entry
    THEN IF lines[i].close
         THEN ParseEntries(lines, i + 1, Append(entries, Append(current_entry, lines[i])),
                           <<>>, FALSE)
         ELSE ParseEntries(lines, i + 1, entries, Append(current_entry, lines[i]), TRUE)
    ELSE ParseEntries(lines, i + 1, entries, current_entry, in_entry)

\* first_line.split("{")[1].split(",")[0].strip()
EntryKey(entry) == rstrip(lstrip(entry[1].key))

\* df["citation_key"].unique() of the target evidence table
valid_keys(evidence_csv) == {evidence_csv[i].citation_key : i \in DOMAIN evidence_csv}

\* import_citations_bib: the entries written to target_bib, each by the
\* number of the source entry its first line belongs to
import_citations_bib(source_bib, evidence_csv) ==
    LET entries == ParseEntries(BibLines(source_bib, 1), 1, <<>>, <<>>, FALSE)
        Kept(k) == entries[k][1].brace /\ EntryKey(entries[k]) \in valid_keys(evidence_csv)
        filtered_entries == SelectIdx(entries, Kept, 1)
    IN [k \in DOMAIN filtered_entries |-> filtered_entries[k][1].entry]

RequiredFiles == {"literature_evidence.csv", "literature_citations.bib", "literature.md"}

\* validate_source_evidence: is_valid
validate_source_evidence(source) == RequiredFiles \subseteq source.files

NoSummary == [total_papers |-> 0, valid_papers |-> 0, needs_review |-> 0, to_remove |-> 0]

\* what import_evidence leaves in the target directory and returns
NoImport ==
    [ exit |-> FALSE, files |-> {}, evidence |-> <<>>, validation |-> <<>>, bib |-> <<>>,
      files_imported |-> <<>>, validation_summary |-> NoSummary ]

\* valid_df.drop(columns=cols_to_drop).to_csv(...): the rows written
DropValidation(df) ==
    [ i \in DOMAIN df |->
        [ doi |-> write_seq_cell(df[i].doi), citation_key |-> df[i].citation_key,
          citation |-> write_seq_cell(df[i].citation) ] ]

NotRemovedOnlyKeep(validation_df) ==
    LET Keep(i) == validation_df[i].action = "keep"
    IN SelectIdx(validation_df, Keep, 1)

\* validation_df[validation_df["action"] != "remove"]
NotRemoved(validation_df) ==
    LET Keep(i) == validation_df[i].action # "remove"
    IN SelectIdx(validation_df, Keep, 1)

\* import_evidence(source_dir, target_dir, validate): exit is sys.exit(1)
import_evidence(source, validate, responses) ==
    IF ~validate_source_evidence(source) THEN [NoImport EXCEPT !.exit = TRUE]
    ELSE LET validation_df == validate_evidence_file(source.evidence, TRUE, TRUE, responses)
             evidence == IF validate THEN DropValidation(NotRemoved(validation_df))
                         ELSE source.evidence
             summary == IF validate THEN generate_validation_summary(validation_df)
                        ELSE [ NoSummary EXCEPT !.total_papers = Len(source.evidence),
                                                !.valid_papers = Len(source.evidence) ]
         IN [ exit |-> FALSE,
              files |-> RequiredFiles \cup
                            (IF validate THEN {"literature_evidence_validation.csv"} ELSE {}),
              evidence |-> evidence,
              validation |-> IF validate THEN validation_df ELSE <<>>,
              bib |-> import_citations_bib(source.bib, evidence),
              files_imported |->
                  <<"literature.md", "literature_evidence.csv", "literature_citations.bib">>,
              validation_summary |-> summary ]

NoMetadata ==
    [ papers_total_in_source |-> 0, papers_imported |-> 0, papers_removed |-> 0,
      papers_need_review |-> 0, files_imported |-> <<>> ]

\* generate_provenance_metadata: the counts and the files
generate_provenance_metadata(import_results) ==
    [ papers_total_in_source |-> import_results.validation_summary.total_papers,
      papers_imported |-> import_results.validation_summary.valid_papers,
      papers_removed |-> import_results.validation_summary.to_remove,
      papers_need_review |-> import_results.validation_summary.needs_review,
      files_imported |-> import_results.files_imported ]

\* main, import mode, with --source: import_evidence, then the provenance
\* metadata saved as literature_evidence_metadata.json
ImportMain(no_validate, responses) ==
    /\ merge.phase = "source"
    /\ Len(responses) = Len(merge.source.evidence)
    /\ LET import_results == import_evidence(merge.source, ~no_validate, responses)
       IN merge' = [merge EXCEPT
                        !.phase = "imported",
                        !.validate = ~no_validate,
                        !.responses = responses,
                        !.target = import_results,
                        !.metadata = IF import_results.exit THEN NoMetadata
                                     ELSE generate_provenance_metadata(import_results),
                        !.exit_status = IF import_results.exit THEN 1 ELSE 0]
    /\ UNCHANGED <<gitVars, smVars, cite>>

\* main of rrwrite_validate_evidence_tool.py on the source table: the report
\* it saves, and exit status 1 when a paper is to be removed
ValidateMain(no_doi_check, no_freshness_check, responses) ==
    /\ merge.phase = "source"
    /\ "literature_evidence.csv" \in merge.source.files
    /\ Len(responses) = Len(merge.source.evidence)
    /\ LET validation_df == validate_evidence_file(merge.source.evidence, ~no_doi_check,
                                                   ~no_freshness_check, responses)
           summary == generate_validation_summary(validation_df)
       IN merge' = [merge EXCEPT
                        !.phase = "validated",
                        !.validate = ~no_doi_check,
                        !.responses = responses,
                        !.target = [NoImport EXCEPT !.validation = validation_df,
                                                    !.validation_summary = summary],
                        !.exit_status = IF summary.to_remove > 0 THEN 1 ELSE 0]
    /\ UNCHANGED <<gitVars, smVars, cite>>

(***************************************************************************)
(* SpecImport: a previous version's evidence, validated or imported.       *)
(***************************************************************************)
Word(paren, year) == [paren |-> paren, year |-> year]

Fresh == <<Word(FALSE, 0), Word(TRUE, 2024)>>
Stale == <<Word(FALSE, 0), Word(FALSE, 2018)>>
Old == <<Word(FALSE, 2024), Word(TRUE, 2005)>>
Undated == <<Word(FALSE, 0)>>

SourceRows ==
    { [doi |-> <<"10.1/a">>, citation_key |-> <<"li2020">>, citation |-> Fresh],
      [doi |-> <<DoiPrefix, "10.1/b">>, citation_key |-> <<"wu2021">>, citation |-> Stale],
      [doi |-> <<>>, citation_key |-> <<"old2005">>, citation |-> Old],
      [doi |-> <<" ">>, citation_key |-> <<"li2020">>, citation |-> <<>>],
      [doi |-> <<"10.1/c">>, citation_key |-> <<"old2005">>, citation |-> Undated] }

SourceTables == SeqsUpTo(SourceRows, MaxRows)

Entry(key, own_line_close) == [key |-> key, own_line_close |-> own_line_close]

SourceBibs ==
    { <<>>,
      <<Entry(<<"li2020">>, TRUE), Entry(<<" ", "wu2021">>, TRUE), Entry(<<"old2005">>, TRUE)>>,
      <<Entry(<<"li2020">>, FALSE), Entry(<<"wu2021">>, FALSE)>>,
      <<Entry(<<"wu2021">>, TRUE), Entry(<<"gone1999">>, TRUE)>> }

SourceFiles == {RequiredFiles, RequiredFiles \ {"literature.md"}}

InitImport ==
    /\ repo = EmptyRepo
    /\ gm = NoGitManager
    /\ gitRet = [op |-> "none", exc |-> "none", ret |-> None]
    /\ sm = NoObject
    /\ state = _create_initial_state
    /\ stateFile = NoFile
    /\ smErr = "none"
    /\ cite = NoCite
    /\ \E evidence \in SourceTables, bib \in SourceBibs, files \in SourceFiles :
           merge = [ phase |-> "source",
                     source |-> [files |-> files, evidence |-> evidence, bib |-> bib],
                     validate |-> FALSE, responses |-> <<>>, target |-> NoImport,
                     metadata |-> NoMetadata, exit_status |-> -1 ]

\* one answer of the resolver for each row of the table
ResponseSeqs == SeqsUpTo(Responses, MaxRows)

NextImport ==
    \E no_validate \in BOOLEAN, responses \in ResponseSeqs :
        ImportMain(no_validate, responses)

SpecImport == InitImport /\ [][NextImport]_vars

(***************************************************************************)
(* SpecValidate: an evidence table put through the validation tool.        *)
(***************************************************************************)
InitValidate ==
    /\ repo = EmptyRepo
    /\ gm = NoGitManager
    /\ gitRet = [op |-> "none", exc |-> "none", ret |-> None]
    /\ sm = NoObject
    /\ state = _create_initial_state
    /\ stateFile = NoFile
    /\ smErr = "none"
    /\ cite = NoCite
    /\ \E evidence \in SourceTables :
           merge = [ phase |-> "source",
                     source |-> [files |-> {"literature_evidence.csv"},
                                 evidence |-> evidence, bib |-> <<>>],
                     validate |-> FALSE, responses |-> <<>>, target |-> NoImport,
                     metadata |-> NoMetadata, exit_status |-> -1 ]

NextValidate ==
    \E no_doi_check \in BOOLEAN, no_freshness_check \in BOOLEAN,
       responses \in ResponseSeqs :
        ValidateMain(no_doi_check, no_freshness_check, responses)

SpecValidate == InitValidate /\ [][NextValidate]_vars

(***************************************************************************)
(* detect_previous_version.  The parent directory is the sequence of its   *)
(* subdirectories in the order glob yields them, each [state_file, status, *)
(* papers_found, created_at]; current is the place of the current          *)
(* directory in it, 0 when that directory does not exist yet.              *)
(***************************************************************************)
\* the candidates list: the siblings that pass every test of the loop
Candidates(dirs, current) ==
    LET Passes(i) == /\ i # current
                     /\ dirs[i].state_file = "ok"
                     /\ dirs[i].status = "completed"
                     /\ dirs[i].papers_found > 0
    IN SelectIdx([i \in DOMAIN dirs |-> i], Passes, 1)

LeastRecent(dirs, candidates) ==
    LET first == CHOOSE k \in DOMAIN candidates :
                     /\ \A j \in DOMAIN candidates :
                            dirs[candidates[j]].created_at >= dirs[candidates[k]].created_at
                     /\ \A j \in 1..(k - 1) :
                            dirs[candidates[j]].created_at # dirs[candidates[k]].created_at
    IN candidates[first]

\* candidates.sort(key=created_at, reverse=True); candidates[0]: the sort is
\* stable, so the first of the most recent ones
MostRecent(dirs, candidates) ==
    LET first == CHOOSE k \in DOMAIN candidates :
                     /\ \A j \in DOMAIN candidates :
                            dirs[candidates[j]].created_at <= dirs[candidates[k]].created_at
                     /\ \A j \in 1..(k - 1) :
                            dirs[candidates[j]].created_at # dirs[candidates[k]].created_at
    IN candidates[first]

\* detect_previous_version: the place of the directory returned, 0 for None
detect_previous_version(dirs, current) ==
    LET candidates == Candidates(dirs, current)
    IN IF candidates # <<>> THEN MostRecent(dirs, candidates) ELSE 0

\* main with --detect-only and no --source
DetectOnly ==
    /\ merge.phase = "siblings"
    /\ merge' = [merge EXCEPT !.phase = "detected",
                              !.detected = detect_previous_version(merge.dirs, merge.current)]
    /\ UNCHANGED <<gitVars, smVars, cite>>

(***************************************************************************)
(* SpecDetect: a parent directory searched for a previous version.         *)
(***************************************************************************)
Dir(state_file, status, papers_found, created_at) ==
    [ state_file |-> state_file, status |-> status, papers_found |-> papers_found,
      created_at |-> created_at ]

DirKinds ==
    { Dir("missing", "not_started", 0, 0), Dir("unreadable", "not_started", 0, 0),
      Dir("ok", "completed", 5, 1), Dir("ok", "completed", 5, 2),
      Dir("ok", "completed", 0, 3), Dir("ok", "in_progress", 5, 3) }

InitDetect ==
    /\ repo = EmptyRepo
    /\ gm = NoGitManager
    /\ gitRet = [op |-> "none", exc |-> "none", ret |-> None]
    /\ sm = NoObject
    /\ state = _create_initial_state
    /\ stateFile = NoFile
    /\ smErr = "none"
    /\ cite = NoCite
    /\ \E dirs \in SeqsUpTo(DirKinds, MaxDirs) : \E current \in 0..Len(dirs) :
           merge = [phase |-> "siblings", dirs |-> dirs, current |-> current, detected |-> -1]

NextDetect == DetectOnly

SpecDetect == InitDetect /\ [][NextDetect]_vars

(***************************************************************************)
(* rrwrite-state-manager.py, the state library of the first workflow.  Its *)
(* StateManager keeps nothing in memory: every method reads state.json and *)
(* writes it back.  stateFile.doc is the document, smErr the exception the *)
(* last call left with.  A key a stage record does not hold yet is None.   *)
(***************************************************************************)
LegacyStages == {"plan", "research", "draft", "critique", "assembly"}

\* the state structure initialize_state creates
LegacyInitialState(project_name, target_journal) ==
    [ project_name |-> IF project_name = None THEN "project_root" ELSE project_name,
      target_journal |-> target_journal,
      workflow_status |->
          [ st \in LegacyStages |->
              IF st = "critique"
              THEN [ status |-> "not_started", completed_at |-> None, git_commit |-> None,
                     iterations |-> <<>> ]
              ELSE [status |-> "not_started", completed_at |-> None, git_commit |-> None] ],
      runs |-> <<>> ]

LegacyNoFile == [exists |-> FALSE, doc |-> LegacyInitialState(None, None), written |-> 0]

\* _write_state: the file once the dump has ended
Legacy_write_state(doc) == [exists |-> TRUE, doc |-> doc, written |-> DocChunks]

\* initialize_state: the file written; the document is also what it returns
Legacy_initialize_state(project_name, target_journal) ==
    Legacy_write_state(LegacyInitialState(project_name, target_journal))

\* read_state: [none, doc]
Legacy_read_state(file) == [none |-> ~file.exists, doc |-> file.doc]

\* update_workflow_stage: [file, exc]
Legacy_update_workflow_stage(file, stage, status, git_commit) ==
    LET read == Legacy_read_state(file)
        before == IF read.none THEN Legacy_initialize_state(None, None) ELSE file
        doc == before.doc
        stage_data == [ doc.workflow_status[stage] EXCEPT
                            !.status = status,
                            !.completed_at = IF status = "completed" THEN Timestamp ELSE @,
                            !.git_commit = IF status = "completed" /\ git_commit # None
                                           THEN git_commit ELSE @ ]
    IN IF stage \notin DOMAIN doc.workflow_status
       THEN [file |-> before, exc |-> "ValueError"]
       ELSE [ file |-> Legacy_write_state([doc EXCEPT !.workflow_status[stage] = stage_data]),
              exc |-> "none" ]

\* rrwrite-state-manager.py init --project-name .. --journal ..
LegacyInit(project_name, target_journal) ==
    /\ stateFile' = Legacy_initialize_state(project_name, target_journal)
    /\ smErr' = "none"
    /\ UNCHANGED <<gitVars, sm, state, merge, cite>>

LegacyUpdateStage(stage, status, git_commit) ==
    /\ LET res == Legacy_update_workflow_stage(stateFile, stage, status, git_commit)
       IN stateFile' = res.file /\ smErr' = res.exc
    /\ UNCHANGED <<gitVars, sm, state, merge, cite>>

(***************************************************************************)
(* SpecLegacy: calls of the first workflow's state library.                *)
(***************************************************************************)
LegacyStageInputs == {"plan", "draft", "outline"}

InitLegacy ==
    /\ repo = EmptyRepo
    /\ gm = NoGitManager
    /\ gitRet = [op |-> "none", exc |-> "none", ret |-> None]
    /\ sm = NoObject
    /\ state = _create_initial_state
    /\ stateFile = LegacyNoFile
    /\ smErr = "none"
    /\ merge = NoMerge
    /\ cite = NoCite

NextLegacy ==
    \/ \E project_name \in {None, "paper"}, target_journal \in {None, "Nature"} :
           LegacyInit(project_name, target_journal)
    \/ \E stage \in LegacyStageInputs, status \in StatusInputs,
          git_commit \in {None, "abc1234"} :
           LegacyUpdateStage(stage, status, git_commit)

SpecLegacy == InitLegacy /\ [][NextLegacy]_vars

(***************************************************************************)
(* SpecRuns: run records of the first workflow's state library.  A dict of *)
(* outputs is a set of <<key, path>> pairs; datetime.now() is a clock      *)
(* reading, later than every timestamp already written.                    *)
(***************************************************************************)
MaxRuns == 2
MaxClock == 3

isoformat(now) == ToString(now)

ClockOf(stamp) == CHOOSE now \in 1..MaxClock : isoformat(now) = stamp

\* the latest clock reading written into a run record, 0 when there is none
LastClock(doc) ==
    LET stamps == ({doc.runs[i].started_at : i \in DOMAIN doc.runs}
                      \cup {doc.runs[i].completed_at : i \in DOMAIN doc.runs}) \ {None}
    IN IF stamps = {} THEN 0
       ELSE CHOOSE now \in 1..MaxClock :
                /\ isoformat(now) \in stamps
                /\ \A stamp \in stamps : ClockOf(stamp) <= now

\* dict.update
DictUpdate(d, u) == {p \in d : \A q \in u : q[1] # p[1]} \cup u

\* add_run: the file it writes
Legacy_add_run(file, run_id, target_journal, outputs, now, git_commit) ==
    LET read == Legacy_read_state(file)
        doc == IF read.none THEN Legacy_initialize_state(None, None).doc ELSE file.doc
        run == [ run_id |-> run_id,
                 started_at |-> isoformat(now),
                 completed_at |-> None,
                 target_journal |-> IF target_journal # None THEN target_journal
                                    ELSE doc.target_journal,
                 git_commit |-> git_commit,
                 outputs |-> outputs ]
    IN Legacy_write_state([doc EXCEPT !.runs = Append(@, run)])

\* complete_run: the file after the call; the first record with the run id
\* is stamped, and given outputs are merged into its outputs
Legacy_complete_run(file, run_id, outputs, now) ==
    LET read == Legacy_read_state(file)
        doc == file.doc
        hits == {i \in DOMAIN doc.runs : doc.runs[i].run_id = run_id}
        first == CHOOSE i \in hits : \A j \in hits : i <= j
        stamped == [doc EXCEPT !.runs[first].completed_at = isoformat(now),
                               !.runs[first].outputs =
                                   IF outputs # {} THEN DictUpdate(@, outputs) ELSE @]
    IN IF read.none THEN file
       ELSE Legacy_write_state(IF hits = {} THEN doc ELSE stamped)

LegacyAddRun(run_id, target_journal, outputs, now, git_commit) ==
    /\ Len(stateFile.doc.runs) < MaxRuns
    /\ now > LastClock(stateFile.doc)
    /\ stateFile' = Legacy_add_run(stateFile, run_id, target_journal, outputs, now, git_commit)
    /\ smErr' = "none"
    /\ UNCHANGED <<gitVars, sm, state, merge, cite>>

LegacyCompleteRun(run_id, outputs, now) ==
    /\ now > LastClock(stateFile.doc)
    /\ stateFile' = Legacy_complete_run(stateFile, run_id, outputs, now)
    /\ smErr' = "none"
    /\ UNCHANGED <<gitVars, sm, state, merge, cite>>

RunIds == {"run_a", "run_b"}

OutputInputs == {{}, {<<"draft", "v1.md">>}, {<<"draft", "v2.md">>}}

AddRun ==
    \E run_id \in RunIds, target_journal \in {None, "Nature"}, outputs \in OutputInputs,
       now \in 1..MaxClock, git_commit \in {None, "abc1234"} :
        LegacyAddRun(run_id, target_journal, outputs, now, git_commit)

CompleteRun ==
    \E run_id \in RunIds, outputs \in OutputInputs, now \in 1..MaxClock :
        LegacyCompleteRun(run_id, outputs, now)

RunStageUpdate ==
    \E stage \in {"plan", "draft"}, status \in {"in_progress", "completed"} :
        LegacyUpdateStage(stage, status, None)

NextRuns == AddRun \/ CompleteRun \/ RunStageUpdate

SpecRuns == InitLegacy /\ [][NextRuns]_vars

(***************************************************************************)
(* SpecCritique: stage updates and critique iterations of the first        *)
(* workflow's state library.                                               *)
(***************************************************************************)
MaxIterations == 2

\* add_critique_iteration: the file it writes
Legacy_add_critique_iteration(file, critique_type, version, file_path, recommendation, major_issues, minor_issues) ==
    LET read == Legacy_read_state(file)
        doc == IF read.none THEN Legacy_initialize_state(None, None).doc ELSE file.doc
        iteration == [ type |-> critique_type, version |-> version, file |-> file_path,
                       completed_at |-> Timestamp, recommendation |-> recommendation,
                       major_issues |-> major_issues, minor_issues |-> minor_issues ]
    IN Legacy_write_state(
           [doc EXCEPT !.workflow_status["critique"].iterations = Append(@, iteration),
                       !.workflow_status["critique"].status = "completed"])

LegacyAddCritique(critique_type, version, recommendation, major_issues) ==
    /\ Len(stateFile.doc.workflow_status["critique"].iterations) < MaxIterations
    /\ stateFile' = Legacy_add_critique_iteration(stateFile, critique_type, version,
                                                  "critique.md", recommendation,
                                                  major_issues, 0)
    /\ smErr' = "none"
    /\ UNCHANGED <<gitVars, sm, state, merge, cite>>

AddCritique ==
    \E critique_type \in {"outline", "manuscript"}, version \in 1..MaxIterations,
       recommendation \in {"accept", "revise"}, major_issues \in 0..1 :
        LegacyAddCritique(critique_type, version, recommendation, major_issues)

CritiqueStageUpdate ==
    \E stage \in {"plan", "critique"}, status \in {"in_progress", "completed"} :
        LegacyUpdateStage(stage, status, None)

NextCritique == AddCritique \/ CritiqueStageUpdate

SpecCritique == InitLegacy /\ [][NextCritique]_vars

(***************************************************************************)
(* Claims.                                                                 *)
(***************************************************************************)
Rank(status) ==
    CASE status = "not_started" -> 0
      [] status = "in_progress" -> 1
      [] status = "completed" -> 2
      [] OTHER -> 3

ForwardMove(from, to) ==
    /\ to = "failed" => from \in {"in_progress", "failed"}
    /\ (from # "failed" /\ to # "failed") => Rank(from) <= Rank(to)

\* C1: over every sequence of stage-mutating operations a stage's status never
\* moves backward along not_started -> in_progress -> completed, and failed is
\* entered only from in_progress; a completed stage asked to become not_started
\* stays completed.
C1_StatusOnlyMovesForward ==
    [][(sm.alive /\ sm'.alive) =>
          \A s \in Stages :
              ForwardMove(state.workflow_status[s].status, state'.workflow_status[s].status)]_vars

AllSectionsCompleted(st) ==
    \A x \in DOMAIN st.sections : st.sections[x].status = "completed"

\* C2: in every state reached by update_section_status calls, the drafting
\* stage is completed if and only if every registered section is completed.
C2_DraftingCompletedIffAllSections ==
    sm.alive =>
        (state.workflow_status["drafting"].status = "completed" <=> AllSectionsCompleted(state))

\* C3: whenever a state write is cut short by the end of the process, the state
\* file holds a complete document (the previous one or the new one), never an
\* empty or partial one.
C3_StateFileNeverPartial == stateFile.exists => stateFile.written = DocChunks

HoldsToolMarkers(r) == r.files \cap tool_markers # {}

\* C4: a checkpoint attempted (with checkpointing enabled) against a directory
\* that holds a tool marker file at the time of the call raises and creates no
\* commit, so that no commit is ever added to a history whose directory holds
\* a marker.  (Any exception is taken for the safety error here.)
C4_NoCheckpointOnToolTree ==
    [][\A files \in CommitInputs :
          (GmCommit(files) /\ gm.auto_commit /\ HoldsToolMarkers(repo)) =>
              (gitRet'.exc # "none" /\ repo'.commits = repo.commits)]_vars

\* a pattern read as the glob it is written as: "*" stands for one path segment
GlobOccurs(url, pattern) ==
    \E off \in 0..(Len(url) - Len(pattern)) :
        \A i \in 1..Len(pattern) :
            \/ url[off + i] = pattern[i]
            \/ pattern[i] = "*" /\ url[off + i] # "/"

RemoteMatchesKnownPattern(r) ==
    /\ r.remote # NoRemote
    /\ \E pattern \in RRWRITE_REMOTE_PATTERNS : GlobOccurs(lower(r.remote), lower(pattern))

\* C5: when the origin remote of the history matches a known pattern of the
\* tool's own repository, commit (with checkpointing enabled and git runnable)
\* raises before anything is staged or committed: the index and HEAD are as
\* before the call.  (Any exception is taken for the safety error here.)
C5_ToolRemoteStopsCommit ==
    [][\A files \in CommitInputs :
          (/\ GmCommit(files)
           /\ gm.auto_commit
           /\ repo.git_dir
           /\ repo.git_available
           /\ RemoteMatchesKnownPattern(repo)) =>
              (/\ gitRet'.exc # "none"
               /\ repo'.index = repo.index
               /\ repo'.commits = repo.commits)]_vars

Lacking(file) == {i \in DOMAIN file : file[i].doi = ""}

\* C6: merge_evidence never collapses entries without an identifier: when the
\* old and the new table hold k such entries together, so does the merged one.
C6_EntriesWithoutIdentifierKept ==
    merge.phase = "merged" =>
        Cardinality(Lacking(merge.output_csv))
            = Cardinality(Lacking(merge.old_csv)) + Cardinality(Lacking(merge.new_csv))

Identifiers(file) == {file[i].doi : i \in DOMAIN file} \ {""}

RowsOf(file, doi) == {i \in DOMAIN file : file[i].doi = doi}

\* C7: merge_evidence yields exactly one entry per identifier occurring in
\* either table, and for an identifier of both tables the entry that survives
\* is the new table's.
C7_OneEntryPerIdentifierNewWins ==
    merge.phase = "merged" =>
        /\ Identifiers(merge.output_csv)
               = Identifiers(merge.old_csv) \cup Identifiers(merge.new_csv)
        /\ \A doi \in Identifiers(merge.output_csv) :
               /\ Cardinality(RowsOf(merge.output_csv, doi)) = 1
               /\ doi \in Identifiers(merge.new_csv) =>
                      \A i \in RowsOf(merge.output_csv, doi) :
                          \E j \in RowsOf(merge.new_csv, doi) :
                              /\ merge.output_csv[i] = merge.new_csv[j]
                              /\ RowsOf(merge.new_csv, doi) \subseteq 1..j

\* an identifier of both tables, with different quotes, has been merged
C7_Witness ==
    /\ merge.phase = "merged"
    /\ \E i \in DOMAIN merge.old_csv, j \in DOMAIN merge.new_csv :
           /\ merge.old_csv[i].doi = merge.new_csv[j].doi
           /\ merge.old_csv[i].doi # ""
           /\ merge.old_csv[i].quote # merge.new_csv[j].quote
    /\ merge.stats.duplicates_removed > 0

\* C8: for tables A, B of identifier-bearing entries,
\* merge(merge(A, B), B) = merge(A, B): same entries, same order.
C8_MergeIdempotent ==
    (/\ merge.phase = "merged_again"
     /\ Lacking(merge.old_csv) = {}
     /\ Lacking(merge.new_csv) = {}) =>
        merge.again_csv = merge.output_csv

\* a merge that dropped a duplicate has been repeated
C8_Witness ==
    /\ merge.phase = "merged_again"
    /\ Lacking(merge.old_csv) = {}
    /\ Lacking(merge.new_csv) = {}
    /\ merge.stats.duplicates_removed > 0
    /\ merge.stats.from_previous > 0
    /\ Len(merge.again_csv) > 1

\* the keys cited in the text, and those the bibliography defines
TextKeys == extract_citations_from_text(cite.manuscript)

BibKeys == extract_citations_from_bib(cite.bib)

C10_AuditEntryPerKeyOnEveryCall ==
    [][\A citation_keys \in SeqsUpTo(KeyInputs, MaxKeys), section \in SectionInputs,
          assembly \in BOOLEAN :
           ValidateAllLayers(citation_keys, section, assembly, TRUE) =>
               /\ Len(cite'.audit_log) = Len(cite.audit_log) + Len(citation_keys)
               /\ \A i \in 1..Len(citation_keys) :
                      cite'.audit_log[Len(cite.audit_log) + i].citation = citation_keys[i]]_vars

\* every key of the list has a row in the evidence table
AllInEvidence(citation_keys) ==
    \A i \in 1..Len(citation_keys) :
        citation_keys[i] \in load_evidence_keys(cite.evidence)

\* C11: section-appropriateness warnings are advisory: when every citation
\* key has an evidence entry and the completeness check passes or is not
\* requested, validate_all_layers reports success and the command line exits
\* with status zero, whatever layer 2 warned about.
C11_WarningsAreAdvisory ==
    [][\A citation_keys \in SeqsUpTo(KeyInputs, MaxKeys), section \in SectionInputs :
           /\ \A assembly \in BOOLEAN, sink \in BOOLEAN :
                  ( /\ ValidateAllLayers(citation_keys, section, assembly, sink)
                    /\ AllInEvidence(citation_keys)
                    /\ assembly =>
                           validate_citation_completeness(cite.manuscript, cite.bib).exc
                               = "none" )
                  => cite'.result.exc = "none" /\ cite'.result.success
           /\ Main(section, citation_keys) /\ AllInEvidence(citation_keys)
                  => cite'.exit_status = 0]_vars

\* the rows import_evidence found in the source table, as it validated them
Validated == merge.target.validation

Imported == merge.phase = "imported" /\ merge.validate /\ ~merge.target.exit

\* C12: with validation enabled, import_evidence writes to the target
\* evidence table exactly the source entries whose disposition is keep or
\* review, in order: none with disposition remove is copied, none of the
\* others is lost, and the table has the source size minus the removed ones.
C12_ImportKeepsKeepAndReview ==
    Imported =>
        /\ Len(Validated) = Len(merge.source.evidence)
        /\ LET KeepOrReview(i) == Validated[i].action \in {"keep", "review"}
           IN merge.target.evidence = SelectIdx(merge.source.evidence, KeepOrReview, 1)
        /\ Len(merge.target.evidence) =
               Len(merge.source.evidence) - CountAction(Validated, "remove")

\* an import that dropped one entry and kept one flagged for review
C12_Witness ==
    /\ Imported
    /\ \E i, j \in DOMAIN Validated :
           Validated[i].action = "remove" /\ Validated[j].action = "review"
    /\ Len(merge.target.evidence) = 1

\* an import, validating or not, that ran to its end
ImportDone == merge.phase = "imported" /\ ~merge.target.exit

\* C13: the imported-paper count of the import's provenance (papers_imported,
\* which the research stage stores as papers_from_previous) is the number of
\* entries of the resulting target evidence table, for every mix of keep,
\* review and remove dispositions.
C13_ProvenanceCountsTheTable ==
    ImportDone => merge.metadata.papers_imported = Len(merge.target.evidence)

\* C14: after import_citations_bib the target bibliography holds an entry of
\* the source bibliography if and only if the entry's citation key occurs in
\* the target evidence table.
C14_BibliographyFollowsEvidence ==
    ImportDone =>
        \A n \in DOMAIN merge.source.bib :
            (\E k \in DOMAIN merge.target.bib : merge.target.bib[k] = n)
                <=> (\E i \in DOMAIN merge.target.evidence :
                         merge.target.evidence[i].citation_key =
                             rstrip(lstrip(merge.source.bib[n].key)))

\* the row carries no identifier: nothing is left of the cell once the
\* resolver prefix and the blanks are taken away
NoIdentifier(row) == doi_clean(row.doi) = <<>>

\* C15: validate_evidence_file gives disposition remove exactly to the entries
\* whose identifier resolves as invalid, review to the entries not removed
\* whose freshness is stale or old, keep to all others; an entry whose
\* resolution ends in a timeout or a network error, or that has no identifier,
\* is never given remove.
C15_Dispositions ==
    merge.phase = "validated" =>
        \A i \in DOMAIN Validated :
            /\ Validated[i].action = "remove" <=> Validated[i].doi_status = "invalid"
            /\ Validated[i].action = "review" <=>
                   /\ Validated[i].doi_status # "invalid"
                   /\ Validated[i].freshness \in {"stale", "old"}
            /\ Validated[i].action \in {"keep", "review", "remove"}
            /\ ( \/ merge.responses[i] \in {"Timeout", "RequestException"}
                 \/ NoIdentifier(merge.source.evidence[i]) )
                   => Validated[i].action # "remove"

\* the siblings other than the current directory that hold a readable state
\* with research completed and papers found
Qualifying ==
    { i \in DOMAIN merge.dirs :
        /\ i # merge.current
        /\ merge.dirs[i].state_file = "ok"
        /\ merge.dirs[i].status = "completed"
        /\ merge.dirs[i].papers_found > 0 }

\* C16: detect_previous_version returns None when no sibling other than the
\* current directory holds a readable state whose research stage is completed
\* with papers_found > 0; otherwise it returns one of those siblings with the
\* greatest creation timestamp, and never the current directory.
C16_DetectsMostRecentSibling ==
    merge.phase = "detected" =>
        /\ Qualifying = {} => merge.detected = 0
        /\ Qualifying # {} =>
               /\ merge.detected \in Qualifying
               /\ \A j \in Qualifying :
                      merge.dirs[j].created_at <= merge.dirs[merge.detected].created_at
        /\ merge.detected = 0 \/ merge.detected # merge.current

\* an older qualifying sibling comes before the one returned, and the current
\* directory itself holds completed research
C16_Witness ==
    /\ merge.phase = "detected"
    /\ merge.detected > 1
    /\ \E j \in Qualifying :
           /\ j < merge.detected
           /\ merge.dirs[j].created_at < merge.dirs[merge.detected].created_at
    /\ merge.current # 0
    /\ merge.dirs[merge.current].status = "completed"

\* C17: initializing the state of a project whose state document exists is a
\* no-op: the persisted document is left as it was.
C17_InitializeKeepsExistingState ==
    [][\A project_name \in {None, "paper"}, target_journal \in {None, "Nature"} :
           LegacyInit(project_name, target_journal) /\ stateFile.exists
               => stateFile' = stateFile]_vars

\* C18: update_workflow_stage with a stage name that is not a known stage
\* raises and leaves the persisted state as it was before the call, also when
\* no state document exists yet.
C18_UnknownStageChangesNothing ==
    [][\A status \in StatusInputs, git_commit \in {None, "abc1234"} :
           LegacyUpdateStage("outline", status, git_commit)
               => smErr' # "none" /\ stateFile' = stateFile]_vars

\* the directory holds the tool's own tree
ToolTree(r) ==
    \/ _validate_manuscript_directory([r EXCEPT !.dir_exists = TRUE]) = "GitSafetyError"
    \/ _check_not_tool_repo(r) = "GitSafetyError"

\* the history's remote is the tool's repository
ToolRemote(r) == r.git_dir /\ _check_remote_url(r) = "GitSafetyError"

\* C19: a safety violation met while the StateManager initializes the history
\* (the tool's tree, or the tool's repository as remote) or while commit_stage
\* checkpoints is raised to the caller, never turned into a skip or a None.
C19_SafetyViolationsAreRaised ==
    [][/\ ConstructWithGit /\ (ToolTree(repo) \/ ToolRemote(repo))
              => smErr' = "GitSafetyError"
       /\ \A files \in CommitInputs :
              CommitStage(files) /\ sm.git_manager /\ ToolRemote(repo)
                  => gitRet'.exc = "GitSafetyError"]_vars

\* the git binary is missing, or git rev-parse HEAD fails, for the object's history
GitCallFails(obj, r) ==
    obj.git_manager /\ r.git_dir /\ (~r.git_available \/ r.commits = <<>>)

\* C20: when git is unavailable or a git call fails while a stage is marked
\* completed, update_workflow_stage returns without raising, the file holds the
\* stage as completed with no commit, and memory and file agree.
C20_CompletionSurvivesGitFailure ==
    [][\A stage \in CompletedInputs :
           update_workflow_stage(stage, "completed", NoKill) /\ GitCallFails(sm, repo)
               => /\ smErr' = "none"
                  /\ stateFile'.doc.workflow_status[stage].status = "completed"
                  /\ stateFile'.doc.workflow_status[stage].git_commit = None
                  /\ state' = stateFile'.doc]_vars
\* C21: every mutation reloads the persisted state before changing it, so when
\* two StateManager objects take turns an update persisted through one is not
\* lost by a later update through the other: an update of one stage leaves
\* every other stage of the persisted state as it was.
C21_TurnsLoseNoUpdate ==
    [][\A stage \in TurnStages, status \in TurnStatuses :
           update_workflow_stage(stage, status, NoKill)
               \/ SecondUpdateStage(stage, status)
               => \A other \in Stages \ {stage} :
                      stateFile'.doc.workflow_status[other] =
                          stateFile.doc.workflow_status[other]]_vars
\* C22: a run record whose completed_at is set is never changed again: no
\* later complete_run, add_run or stage update changes any of its fields.
C22_CompletedRunIsImmutable ==
    [][\A i \in DOMAIN stateFile.doc.runs :
           stateFile.doc.runs[i].completed_at # None
               => /\ i \in DOMAIN stateFile'.doc.runs
                  /\ stateFile'.doc.runs[i] = stateFile.doc.runs[i]]_vars
\* C23: validate_section_appropriateness never raises, whatever the section,
\* the citation keys and the rows of the evidence table (a year that is
\* missing, empty or no integer, a citation type that is unknown): no call of
\* validate_all_layers, which runs it as its second layer, leaves with an
\* exception.
C23_AppropriatenessNeverRaises ==
    [][\A citation_keys \in SeqsUpTo(KeyInputs, MaxKeys), section \in SectionInputs,
          assembly \in BOOLEAN, sink \in BOOLEAN :
           ValidateAllLayers(citation_keys, section, assembly, sink)
               => cite'.result.exc = "none"]_vars
\* the checkpoint of these files fails: GitManager.commit leaves with an exception
CheckpointFails(obj, r, files) ==
    obj.git_manager /\ commit(r, obj.auto_commit, files).exc # "none"

CompletedOnFile(f) ==
    {stage \in Stages : f.exists /\ f.doc.workflow_status[stage].status = "completed"}

\* C24: when commit_stage fails after a stage was marked completed, it returns
\* None without raising, and the persisted and in-memory state, with every
\* completed stage and its completed_at, are as they were.
C24_FailedCheckpointKeepsState ==
    [][\A files \in CommitInputs :
           CommitStage(files) /\ CheckpointFails(sm, repo, files)
               => /\ gitRet'.exc = "none"
                  /\ gitRet'.ret = None
                  /\ stateFile' = stateFile
                  /\ state' = state
                  /\ smErr' = smErr]_vars

\* a checkpoint has just failed while a stage is completed on file
C24_Witness ==
    /\ gitRet.op = "commit_stage"
    /\ gitRet.ret = None
    /\ sm.alive
    /\ CompletedOnFile(stateFile) # {}
    /\ \A files \in CommitInputs : CheckpointFails(sm, repo, files)
\* C25: initialize_repository on a directory that already has a history
\* returns False and leaves directory and history as they are, and (with git
\* runnable) raises the safety error when the origin remote matches a known
\* pattern of the tool's repository.
C25_InitializeExistingHistory ==
    [][GmInitializeRepository /\ repo.git_dir /\ repo.git_available
           => /\ repo' = repo
              /\ IF RemoteMatchesKnownPattern(repo)
                 THEN gitRet'.exc = "GitSafetyError"
                 ELSE gitRet'.exc = "none" /\ gitRet'.ret = "False"]_vars
\* C26: update_section_status with a section name not seen before registers
\* the section and grows total_sections by one (a known name leaves it), so
\* that total_sections is always the number of registered sections.
C26_TotalCountsRegisteredSections ==
    [][\A call \in SectionCalls :
           update_section_status(call[1], call[2], NoKill)
               => /\ state.total_sections = Cardinality(DOMAIN state.sections)
                  /\ call[1] \in DOMAIN state'.sections
                  /\ state'.total_sections =
                         state.total_sections
                             + (IF call[1] \in DOMAIN state.sections THEN 0 ELSE 1)
                  /\ state'.total_sections = Cardinality(DOMAIN state'.sections)
                  /\ stateFile'.doc.total_sections =
                         Cardinality(DOMAIN stateFile'.doc.sections)]_vars

\* a section that is not among the six initial ones has been registered
C26_Witness ==
    /\ sm.alive
    /\ DOMAIN state.sections # DefaultSections
    /\ state.total_sections > 6
    /\ stateFile.doc = state
\* C27: a checkpoint holds only files named in the commit call that created
\* it; what an earlier call staged, or the index held otherwise, is not part
\* of a later checkpoint of other files.
C27_CheckpointHoldsNamedFilesOnly ==
    [][\A files \in CommitInputs :
           GmCommit(files) /\ Len(repo'.commits) = Len(repo.commits) + 1
               => repo'.commits[Len(repo'.commits)] \subseteq files]_vars
CanonicalOrder ==
    << "repository_analysis", "plan", "assessment", "research", "drafting", "critique",
       "assembly" >>

NotCompleted(st) ==
    {i \in DOMAIN CanonicalOrder : st.workflow_status[CanonicalOrder[i]].status # "completed"}

\* C28: the current stage of the progress summary is the first stage of the
\* canonical order that is not completed (not_started, in_progress or failed),
\* and it is "completed" only when every stage of the order is completed.
C28_CurrentStageIsFirstNotCompleted ==
    [][GetProgressSummary
           => gitRet'.summary.current_stage =
                  IF NotCompleted(state) = {} THEN "completed"
                  ELSE CanonicalOrder[CHOOSE i \in NotCompleted(state) :
                                          \A j \in NotCompleted(state) : i <= j]]_vars
\* C29: after any sequence of update_section_status calls, completed_sections
\* is the number of registered sections whose status is completed, in memory
\* and on file, also after a completed section was set back.
C29_CompletedCountIsExact ==
    /\ state.completed_sections = CountCompleted(state.sections)
    /\ stateFile.doc.completed_sections = CountCompleted(stateFile.doc.sections)
\* C30: in every persisted state, each stage whose status is completed has a
\* completed_at timestamp.
C30_CompletedHasTimestamp ==
    stateFile.exists
        => \A stage \in DOMAIN stateFile.doc.workflow_status :
               stateFile.doc.workflow_status[stage].status = "completed"
                   => stateFile.doc.workflow_status[stage].completed_at # None

====
